---- MODULE Spec2Model ----
(***************************************************************************)
(* Model of the fetchies HTTP client wrapper: the Cache Store              *)
(* (src/lib/cache.ts) and the request orchestration pipeline               *)
(* (src/lib/fetches.ts).                                                   *)
(*                                                                         *)
(* Strings of the program that the code inspects (cache keys, URLs) are    *)
(* sequences of tokens, so that the empty string, prefixes and substrings  *)
(* are what they are in the program.                                       *)
(***************************************************************************)
EXTENDS Integers, Sequences, FiniteSets, TLC

\* ------------------------------------------------------------------------
\* Bounds of the model
\* ------------------------------------------------------------------------

\* last instant of the clock (Date.now())
MaxTime == 1

\* ------------------------------------------------------------------------
\* Cache Store: src/lib/cache.ts
\* ------------------------------------------------------------------------

VARIABLES
    maxSize,    \* RequestCache.maxSize
    cache,      \* RequestCache.cache: a function key -> CacheEntry on the stored keys
    keyOrder,   \* RequestCache.keyOrder: the recency list, oldest first
    now         \* Date.now()

\* history variables of the Cache Store (written by the operations from
\* their arguments and results, never read by them)
VARIABLES
    last,       \* the last operation: its name, key, result and what it removed
    within,     \* so far only set, get and has, on at most maxSize distinct keys
    lastSet,    \* while within: key -> the arguments and instant of the last set of
                \* the key, until its ttl has elapsed
    usedKeys,   \* while within: the distinct keys set so far
    used,       \* the keys in the order of their last use: a set, or a get that
                \* returned the key's value; least recently used first
    setSeq,     \* the keys set so far, in order, while plainSets
    plainSets   \* so far only sets of distinct keys, none of them expired

cacheVars == <<maxSize, cache, keyOrder, now>>
cacheHist == <<last, lastSet, within, usedKeys, used, setSeq, plainSets>>

\* the delay function alone, applied to attempt indices 0, 1, 2, ...
VARIABLES
    dConfig,    \* the retry policy
    dAttempt,   \* the next attempt index
    dDelays     \* the delays computed so far: dDelays[n + 1] for attempt index n

delayVars == <<dConfig, dAttempt, dDelays>>

\* the client: src/lib/fetches.ts
VARIABLES
    retryConfig,        \* Fetches.retryConfig: a RetryConfig, or NoRetry when undefined
    abortEventAborts,   \* the platform: whether the transport rejects a pending call
                        \* when an 'abort' event is dispatched on its signal although
                        \* the signal is not aborted (its listener aborts the call), or
                        \* ignores the event (it follows the signal's aborted flag only)
    calls,              \* call -> the state of the logical call
    activeRequests,     \* Fetches.activeRequests: request id -> the call whose
                        \* AbortController is registered under it
    aborted,            \* the calls whose AbortController has been aborted
    lastCancel          \* history: when the last step was cancelRequest or
                        \* cancelAllRequests, its argument and the registry and the
                        \* aborted controllers before it

orchVars == <<retryConfig, abortEventAborts, calls, activeRequests, aborted, lastCancel>>

\* an interceptor chain of the client (the request chain and the response
\* chain are two instances of the same code)
VARIABLES
    chain,          \* Fetches.requestInterceptors / responseInterceptors: the slots
    chainUsed,      \* history: the hooks put into the chain, in insertion order,
                    \* each with its insertion index
    chainIds,       \* history: the ids that use has returned, in order
    chainEjected,   \* history: the ids passed to eject that a slot already had
    chainRun        \* the outcome of the last run of the chain, until the chain
                    \* is changed

chainVars == <<chain, chainUsed, chainIds, chainEjected, chainRun>>

vars == <<cacheVars, cacheHist, delayVars, orchVars, chainVars>>

\* what the operations of the Cache Store alone, of the delay function alone
\* and of the client leave unchanged
StoreFrame == UNCHANGED <<delayVars, orchVars, chainVars>>
DelayFrame == UNCHANGED <<cacheVars, cacheHist, orchVars, chainVars>>
ClientFrame == UNCHANGED <<maxSize, now, cacheHist, delayVars, chainVars>>
ChainFrame == UNCHANGED <<cacheVars, cacheHist, delayVars, orchVars>>

\* the empty string is the only falsy string
Truthy(s) == s /= <<>>

\* the keys of the Cache Store operations: "", "a", "ab"
StoreKeys == {<<>>, <<"a">>, <<"a", "b">>}
\* the capacities a RequestCache is constructed with
Capacities == {0, 1, 2}
StoreValues == {"v1", "v2"}
StoreTtls == {0, 1}
\* invalidate(pattern) with a string pattern: "a", "b"
StorePatterns == {<<"a">>, <<"b">>}

NULL == "null"
None == [none |-> TRUE]

\* Array.prototype.indexOf: the first index of x in s, 0 when absent (-1 in the code)
IndexOf(s, x) ==
    IF \E i \in 1..Len(s) : s[i] = x
    THEN CHOOSE i \in 1..Len(s) : s[i] = x /\ \A j \in 1..(i - 1) : s[j] /= x
    ELSE 0

\* splice(index, 1)
Splice(s, i) == SubSeq(s, 1, i - 1) \o SubSeq(s, i + 1, Len(s))

\* const index = indexOf(key); if (index > -1) splice(index, 1)
RemoveFirst(s, x) == IF IndexOf(s, x) > 0 THEN Splice(s, IndexOf(s, x)) ELSE s

Restrict(f, S) == [x \in S |-> f[x]]

\* (an entry that expires one instant early)
isExpiredEarly(entry, t) == t - entry.timestamp >= entry.ttl
\* RequestCache.isExpired
isExpired(entry, t) == t - entry.timestamp > entry.ttl

\* RequestCache.delete, on the pair (cache, keyOrder)
CacheDelete(cs, key) ==
    [cache |-> Restrict(cs.cache, DOMAIN cs.cache \ {key}),
     keyOrder |-> RemoveFirst(cs.keyOrder, key)]

RECURSIVE DeleteAll(_, _)
DeleteAll(cs, S) ==
    IF S = {} THEN cs
    ELSE LET k == CHOOSE x \in S : TRUE
         IN  DeleteAll(CacheDelete(cs, k), S \ {k})

ExpiredKeys(cs, t) == {k \in DOMAIN cs.cache : isExpired(cs.cache[k], t)}

removeExpiredEntries(cs, t) == DeleteAll(cs, ExpiredKeys(cs, t))

\* the capacity branch of set: lines 24-30
Evict(cs, key, cap) ==
    IF Cardinality(DOMAIN cs.cache) >= cap /\ key \notin DOMAIN cs.cache
    THEN \* const oldestKey = this.keyOrder[0]; if (oldestKey) { delete; shift }
         IF Len(cs.keyOrder) > 0 /\ Truthy(Head(cs.keyOrder))
         THEN [cache |-> Restrict(cs.cache, DOMAIN cs.cache \ {Head(cs.keyOrder)}),
               keyOrder |-> Tail(cs.keyOrder)]
         ELSE cs
    ELSE cs

\* (a set that leaves an existing key at its place in the recency list)
UnplaceNothing(cs, key) == cs
\* lines 17-22 of set: an existing key leaves its place in the recency list
Unplace(cs, key) ==
    IF key \in DOMAIN cs.cache
    THEN [cs EXCEPT !.keyOrder = RemoveFirst(cs.keyOrder, key)]
    ELSE cs

\* lines 32-37 of set
Store(cs, key, value, ttl, t) ==
    [cache |-> [k \in DOMAIN cs.cache \cup {key} |->
                    IF k = key THEN [data |-> value, timestamp |-> t, ttl |-> ttl]
                    ELSE cs.cache[k]],
     keyOrder |-> Append(cs.keyOrder, key)]

\* RequestCache.set
CacheSet(cs, key, value, ttl, t, cap) ==
    Store(Evict(Unplace(removeExpiredEntries(cs, t), key), key, cap), key, value, ttl, t)

\* RequestCache.get: the store after the call and the value returned
\* (a get that does not look at the entry's age)
CacheGetStale(cs, key, t) ==
    IF key \notin DOMAIN cs.cache THEN [cs |-> cs, ret |-> NULL]
    ELSE [cs |-> cs, ret |-> cs.cache[key].data]
CacheGet(cs, key, t) ==
    IF key \notin DOMAIN cs.cache THEN [cs |-> cs, ret |-> NULL]
    ELSE IF isExpired(cs.cache[key], t) THEN [cs |-> CacheDelete(cs, key), ret |-> NULL]
    ELSE [cs |-> [cs EXCEPT !.keyOrder =
                     IF IndexOf(cs.keyOrder, key) > 0
                     THEN Append(Splice(cs.keyOrder, IndexOf(cs.keyOrder, key)), key)
                     ELSE cs.keyOrder],
          ret |-> cs.cache[key].data]

\* RequestCache.has
CacheHas(cs, key, t) == key \in DOMAIN cs.cache /\ ~isExpired(cs.cache[key], t)

\* RequestCache.size
CacheSize(cs) == Cardinality(DOMAIN cs.cache)

\* RequestCache.keys
CacheKeys(cs) == cs.keyOrder

\* RequestCache.clear
CacheClear(cs) == [cache |-> <<>>, keyOrder |-> <<>>]

\* a string pattern is escaped into a regular expression that matches the
\* keys containing it
Contains(s, p) == \E i \in 0..(Len(s) - Len(p)) : SubSeq(s, i + 1, i + Len(p)) = p
\* ^prefix
StartsWith(s, p) == Len(p) <= Len(s) /\ SubSeq(s, 1, Len(p)) = p

\* regex.test(key) for the two shapes of pattern the program builds
RegexTest(pattern, key) ==
    IF pattern.kind = "string" THEN Contains(key, pattern.text)
    ELSE \* ^(GET|HEAD)text
         \E m \in {"GET", "HEAD"} : StartsWith(key, <<m>> \o pattern.text)

\* RequestCache.invalidate
CacheInvalidate(cs, pattern) ==
    DeleteAll(cs, {k \in DOMAIN cs.cache :
                      IndexOf(cs.keyOrder, k) > 0 /\ RegexTest(pattern, k)})

cs0 == [cache |-> cache, keyOrder |-> keyOrder]

\* ------------------------------------------------------------------------
\* The Cache Store's operations as actions
\* ------------------------------------------------------------------------

EmptyLast == [op |-> "new", key |-> <<>>, ret |-> NULL, expired |-> FALSE]

NoSets == [k \in StoreKeys |-> None]

CacheInit ==
    /\ maxSize \in Capacities
    /\ cache = <<>>
    /\ keyOrder = <<>>
    /\ now = 0
    /\ last = EmptyLast
    /\ lastSet = NoSets
    /\ within = TRUE
    /\ usedKeys = {}
    /\ used = <<>>
    /\ setSeq = <<>>
    /\ plainSets = TRUE

\* key becomes the most recently used
Touch(key) == Append(SelectSeq(used, LAMBDA x : x /= key), key)

Set(key, value, ttl) ==
    LET after == CacheSet(cs0, key, value, ttl, now, maxSize)
    IN  /\ cache' = after.cache
        /\ keyOrder' = after.keyOrder
        /\ last' = [op |-> "set", key |-> <<>>, ret |-> NULL, expired |-> FALSE]
        /\ within' = (within /\ Cardinality(usedKeys \cup {key}) <= maxSize)
        /\ lastSet' = IF within'
                       THEN [lastSet EXCEPT ![key] = [data |-> value, at |-> now, ttl |-> ttl]]
                       ELSE NoSets
        /\ usedKeys' = IF within' THEN usedKeys \cup {key} ELSE {}
        /\ used' = Touch(key)
        /\ plainSets' = (plainSets /\ (\A i \in 1..Len(setSeq) : setSeq[i] /= key)
                         /\ ExpiredKeys(cs0, now) = {})
        /\ setSeq' = IF plainSets' THEN Append(setSeq, key) ELSE <<>>
        /\ UNCHANGED <<maxSize, now>>
        /\ StoreFrame

Get(key) ==
    LET r == CacheGet(cs0, key, now)
    IN  /\ cache' = r.cs.cache
        /\ keyOrder' = r.cs.keyOrder
        /\ last' = [op |-> "get", key |-> key, ret |-> r.ret,
                    expired |-> (key \in DOMAIN cache
                                 /\ now - cache[key].timestamp > cache[key].ttl)]
        /\ used' = IF r.ret /= NULL THEN Touch(key) ELSE used
        /\ plainSets' = FALSE
        /\ setSeq' = <<>>
        /\ UNCHANGED <<maxSize, now, lastSet, within, usedKeys>>
        /\ StoreFrame

Has(key) ==
    /\ last' = [op |-> "has", key |-> <<>>,
                ret |-> IF CacheHas(cs0, key, now) THEN "true" ELSE "false",
                expired |-> FALSE]
    /\ UNCHANGED <<cacheVars, lastSet, within, usedKeys, used, setSeq, plainSets>>
    /\ StoreFrame

Invalidate(pattern) ==
    LET after == CacheInvalidate(cs0, pattern)
    IN  /\ cache' = after.cache
        /\ keyOrder' = after.keyOrder
        /\ last' = [op |-> "invalidate", key |-> <<>>, ret |-> NULL,
                    expired |-> FALSE]
        /\ within' = FALSE
        /\ lastSet' = NoSets
        /\ usedKeys' = {}
        /\ plainSets' = FALSE
        /\ setSeq' = <<>>
        /\ UNCHANGED <<maxSize, now, used>>
        /\ StoreFrame

Clear ==
    /\ cache' = CacheClear(cs0).cache
    /\ keyOrder' = CacheClear(cs0).keyOrder
    /\ last' = [op |-> "clear", key |-> <<>>, ret |-> NULL, expired |-> FALSE]
    /\ within' = FALSE
    /\ lastSet' = NoSets
    /\ usedKeys' = {}
    /\ plainSets' = FALSE
    /\ setSeq' = <<>>
    /\ UNCHANGED <<maxSize, now, used>>
    /\ StoreFrame

\* the clock advances
Tick ==
    /\ now < MaxTime
    /\ now' = now + 1
    /\ lastSet' = [k \in StoreKeys |->
                       IF lastSet[k] /= None /\ now' - lastSet[k].at > lastSet[k].ttl
                       THEN None ELSE lastSet[k]]
    /\ UNCHANGED <<maxSize, cache, keyOrder, last, within, usedKeys, used, setSeq, plainSets>>
    /\ StoreFrame

CacheNext ==
    \/ \E k \in StoreKeys, v \in StoreValues, ttl \in StoreTtls : Set(k, v, ttl)
    \/ \E k \in StoreKeys : Get(k)
    \/ \E k \in StoreKeys : Has(k)
    \/ \E p \in StorePatterns : Invalidate([kind |-> "string", text |-> p])
    \/ Clear
    \/ Tick


\* ------------------------------------------------------------------------
\* Retry Controller: src/lib/fetches.ts, shouldRetry and delay
\* ------------------------------------------------------------------------

\* largest retry.attempts a client is configured with
MaxAttempts == 3

\* an optional number is <<>> (undefined) or <<n>>
Undefined == <<>>
\* if (x) on an optional number: undefined and 0 are falsy
TruthyNum(x) == x /= Undefined /\ x[1] /= 0

Min(a, b) == IF a <= b THEN a ELSE b

RECURSIVE Pow2(_)
Pow2(n) == IF n = 0 THEN 1 ELSE 2 * Pow2(n - 1)

\* Fetches.delay: the duration awaited after failed attempt `attempt`
Delay(rc, attempt) ==
    LET d == IF rc.backoff = "exponential" THEN rc.initialDelay * Pow2(attempt)
             ELSE rc.initialDelay * (attempt + 1)
    IN  IF TruthyNum(rc.maxDelay) THEN Min(d, rc.maxDelay[1]) ELSE d

\* last attempt index whose delay is computed
MaxDelayIndex == 4

DelayConfigs ==
    [backoff : {"linear", "exponential"},
     initialDelay : {0, 50, 100},
     maxDelay : {Undefined, <<0>>, <<150>>, <<1000>>}]

DelayInit ==
    /\ dConfig \in DelayConfigs
    /\ dAttempt = 0
    /\ dDelays = <<>>

DelayStep ==
    /\ dAttempt <= MaxDelayIndex
    /\ dDelays' = Append(dDelays, Delay(dConfig, dAttempt))
    /\ dAttempt' = dAttempt + 1
    /\ UNCHANGED dConfig
    /\ DelayFrame

DelayNext == DelayStep

\* C8: the delay awaited after failed attempt index n is initialDelay * 2^n
\* (exponential) or initialDelay * (n + 1) (linear), clamped to maxDelay
\* whenever a maxDelay is configured; with exponential, initialDelay = 100,
\* maxDelay = 1000 the delays for n = 0..4 are 100, 200, 400, 800, 1000.
C8_DelayFormula ==
    /\ \A i \in 1..Len(dDelays) :
          LET n == i - 1
              d == IF dConfig.backoff = "exponential"
                   THEN dConfig.initialDelay * Pow2(n)
                   ELSE dConfig.initialDelay * (n + 1)
          IN  dDelays[i] = IF dConfig.maxDelay /= Undefined
                           THEN Min(d, dConfig.maxDelay[1]) ELSE d
    /\ (dConfig = [backoff |-> "exponential", initialDelay |-> 100, maxDelay |-> <<1000>>]
        /\ Len(dDelays) = 5)
          => dDelays = <<100, 200, 400, 800, 1000>>

\* ------------------------------------------------------------------------
\* Request Orchestrator: src/lib/fetches.ts
\* ------------------------------------------------------------------------

\* the logical calls of the run, in the order they are made
Calls == DOMAIN calls

\* an error object: its class (instanceof), its name and its message
Err(class, name, message) == [class |-> class, name |-> name, message |-> message]
NoErr == Err("none", "none", "none")

\* what the transport rejects with: a network failure, an abort
NetworkFailure == Err("TypeError", "TypeError", "fetch failed")
AbortFailure == Err("DOMException", "AbortError", "This operation was aborted")
\* what a hook (interceptor, transformer) throws
HookErrors == {Err("Error", "Error", "hook failed"),
               Err("FetchesNetworkError", "FetchesNetworkError", "hook failed")}
MaybeHookError == {NoErr} \cup HookErrors

FetchesTimeoutError == Err("FetchesTimeoutError", "FetchesTimeoutError", "Request timed out")
FetchesResponseError == Err("FetchesResponseError", "FetchesResponseError", "HTTP Error")
FetchesValidationError ==
    Err("FetchesValidationError", "FetchesValidationError", "Response validation failed")
\* ValidatorFactory.createValidator: what it throws for an unsupported kind
UnsupportedValidator == Err("Error", "Error", "Unsupported validator type")
\* the catch of the validation in processResponse: whatever was thrown
\* becomes a FetchesValidationError carrying its message
ValidationCatch(error) ==
    Err("FetchesValidationError", "FetchesValidationError",
        IF error = UnsupportedValidator
        THEN "Response validation failed: Unsupported validator type"
        ELSE "Response validation failed")
MaxRetryError == Err("Error", "Error", "Max retry attempts reached")

NoRetry == [none |-> TRUE]

\* custom retry predicates: one that accepts every error
Predicate(p, e) == p = "all"

RetryConfigs ==
    [attempts : 0..MaxAttempts, backoff : {"linear"}, initialDelay : {50},
     maxDelay : {Undefined}, shouldRetry : {"none", "all"}]
    \cup
    [attempts : {MaxAttempts}, backoff : {"exponential"}, initialDelay : {100},
     maxDelay : {<<1000>>}, shouldRetry : {"all"}]

\* (a budget that counts the retries, not the attempts)
maxAttemptsAsRetries == IF retryConfig = NoRetry THEN 1 ELSE retryConfig.attempts + 1
\* const maxAttempts = this.retryConfig?.attempts ?? 1
maxAttempts == IF retryConfig = NoRetry THEN 1 ELSE retryConfig.attempts

\* (a default classification that also retries a non-success status)
shouldRetryStatus(error, attempt, max) ==
    IF attempt >= max - 1 THEN FALSE
    ELSE IF retryConfig = NoRetry \/ retryConfig.shouldRetry = "none"
    THEN error.class \in {"FetchesNetworkError", "FetchesTimeoutError", "FetchesResponseError"}
    ELSE Predicate(retryConfig.shouldRetry, error)
\* Fetches.shouldRetry
shouldRetry(error, attempt, max) ==
    IF attempt >= max - 1 THEN FALSE
    ELSE IF retryConfig = NoRetry \/ retryConfig.shouldRetry = "none"
    THEN error.class \in {"FetchesNetworkError", "FetchesTimeoutError"}
    ELSE Predicate(retryConfig.shouldRetry, error)

\* Fetches.normalizeError (every error object of the model is an Error)
normalizeError(error) ==
    IF error.class \in {"FetchesTimeoutError", "FetchesNetworkError",
                        "FetchesValidationError", "FetchesResponseError"}
    THEN error
    ELSE Err("FetchesNetworkError", "FetchesNetworkError", error.message)

\* the catch of Fetches.performRequest: what it rethrows
performRequestCatch(error) ==
    IF error.class = "DOMException" /\ error.name = "AbortError" /\ error.message = "Timeout"
    THEN FetchesTimeoutError
    ELSE error

\* URLs: the part before '?' and the query string, as tokens
Urls == {[base |-> <<"/items">>, query |-> <<"?x=1">>],
         [base |-> <<"/other">>, query |-> <<>>],
         [base |-> <<"/items">>, query |-> <<>>],
         [base |-> <<"/items", "/5">>, query |-> <<>>]}

\* the validator kinds of ValidatorFactory.createValidator
ValidatorKinds == {"zod", "yup", "io-ts", "runtypes", "joi"}

\* a call: method, url, body, caller-supplied request id ("none" when absent),
\* whether a validator schema is passed, the validatorType of the call, its
\* cacheTime (Undefined when absent)
Req(method, base, query, data, requestId, schema, validatorType, cacheTime) ==
    [method |-> method, url |-> [base |-> base, query |-> query], data |-> data,
     requestId |-> requestId, schema |-> schema, validatorType |-> validatorType,
     cacheTime |-> cacheTime]

\* the calls made
Requests ==
    {Req("GET", <<"/items">>, <<"?x=1">>, <<>>, "r1", TRUE, "zod", Undefined),
     Req("GET", <<"/other">>, <<>>, <<>>, "none", FALSE, "zod", <<0>>),
     Req("POST", <<"/items">>, <<>>, <<"{}">>, "r1", FALSE, "zod", Undefined),
     Req("HEAD", <<"/items">>, <<"?x=1">>, <<>>, "none", FALSE, "zod", Undefined),
     Req("GET", <<"/items", "/5">>, <<>>, <<>>, "none", FALSE, "bogus", Undefined),
     Req("GET", <<"/other">>, <<>>, <<>>, "none", TRUE, "bogus", Undefined)}
NoRequest == Req("none", <<>>, <<>>, <<>>, "none", FALSE, "zod", Undefined)

\* crypto.randomUUID(): a fresh id for each call
Uuid(c) == <<"uuid-1", "uuid-2", "uuid-3", "uuid-4">>[c]
RequestIds == {"r1"} \cup {Uuid(c) : c \in Calls}

\* Fetches.getCacheKey: `${method}:${url}:${data ? JSON.stringify(data) : ''}`
getCacheKey(method, url, data) == <<method, ":">> \o url.base \o url.query \o <<":">> \o data

\* cache lifetime of a call that gives no cacheTime
DefaultCacheTime == 300000
\* finalConfig.cacheTime ?? 300000
CacheTimeOf(req) ==
    IF req.cacheTime = Undefined THEN DefaultCacheTime ELSE req.cacheTime[1]

\* the response envelope that the successful call c builds
Envelope(c) == <<"envelope-1", "envelope-2", "envelope-3", "envelope-4">>[c]

\* new RegExp(`^(GET|HEAD):${urlWithoutParams}`).test(key)
InvalidatePattern(url) == [kind |-> "methods", text |-> <<":">> \o url.base]

NoNum == <<>>
NoResult == [kind |-> "none", err |-> NoErr, data |-> NULL]
IdleCall ==
    [pc |-> "idle", req |-> NoRequest, reqId |-> "none", attempt |-> 0,
     transports |-> 0,        \* transport calls made so far
     delays |-> <<>>,         \* the backoff delays awaited so far
     timerFired |-> FALSE,    \* the timeout timer of the current attempt has fired
     result |-> NoResult,
     \* history of the call
     lastCause |-> "none",    \* why the most recent failed attempt failed
     thrown |-> NoErr,        \* the error that the most recent failed attempt threw
     onlyStatus |-> TRUE,     \* every attempt so far has received a 503 response
     cancelAt |-> NoNum,      \* the number of transport calls made when the call's
                              \* handle was signalled while it was in its transport call
     issuedAt |-> 0,          \* the instant at which the call was made
     doneAt |-> 0,            \* the instant at which the call ended
     after |-> {},            \* the calls that had already ended when it was made
     cancelInDelay |-> NoNum] \* the number of transport calls made when the call's
                              \* handle was signalled while it was in its backoff delay

\* the state a handler works on: its call, the registry, the cache
Here(c) == [call |-> calls[c], active |-> activeRequests, cs |-> cs0]

\* Map.delete
MapDelete(m, k) == Restrict(m, DOMAIN m \ {k})
\* Map.set
MapSet(m, k, v) == [x \in DOMAIN m \cup {k} |-> IF x = k THEN v ELSE m[x]]

\* (an error that also empties the cache)
RaiseClearing(st, error) ==
    [st EXCEPT !.call.pc = "done",
               !.call.doneAt = now,
               !.call.result = [kind |-> "error", err |-> error, data |-> NULL],
               !.cs = CacheClear(st.cs),
               !.active = MapDelete(st.active, st.call.reqId)]
\* (an error that leaves the request id registered)
RaiseRegistered(st, error) ==
    [st EXCEPT !.call.pc = "done",
               !.call.doneAt = now,
               !.call.result = [kind |-> "error", err |-> error, data |-> NULL]]
\* an error leaves Fetches.request: the finally block deregisters the request id
Raise(st, error) ==
    [st EXCEPT !.call.pc = "done",
               !.call.doneAt = now,
               !.call.result = [kind |-> "error", err |-> error, data |-> NULL],
               !.active = MapDelete(st.active, st.call.reqId)]

\* the catch block of Fetches.executeRequest
Caught(st, error, cause) ==
    LET st1 == [st EXCEPT !.call.lastCause = cause,
                          !.call.thrown = error,
                          !.call.onlyStatus = (@ /\ cause = "status")]
    IN  IF ~shouldRetry(error, st.call.attempt, maxAttempts)
        THEN Raise(st1, normalizeError(error))
        ELSE [st1 EXCEPT !.call.pc = "delaying",
                         !.call.timerFired = FALSE,
                         !.call.delays = Append(@, Delay(retryConfig, st.call.attempt))]

\* Fetches.executeRequest from the head of its loop to the transport call;
\* transformer is what the request transformers throw, if they do
BeginAttempt(st, transformer) ==
    IF ~(st.call.attempt < maxAttempts) THEN Raise(st, MaxRetryError)
    ELSE IF transformer /= NoErr THEN Caught(st, transformer, "request-transformer")
    ELSE [st EXCEPT !.call.pc = "fetching",
                    !.call.transports = @ + 1,
                    !.call.timerFired = FALSE]

\* (a success that stores nothing in the cache)
SucceedUncached(st, c) ==
    LET req == st.call.req
        cs1 == IF req.method \in {"POST", "PUT", "PATCH", "DELETE"}
               THEN CacheInvalidate(st.cs, InvalidatePattern(req.url))
               ELSE st.cs
    IN  [st EXCEPT !.call.pc = "done",
                   !.call.doneAt = now,
                   !.call.result = [kind |-> "ok", err |-> NoErr, data |-> Envelope(c)],
                   !.cs = cs1,
                   !.active = MapDelete(st.active, st.call.reqId)]
\* Fetches.request after a successful executeRequest: lines 175-187
Succeed(st, c) ==
    LET req == st.call.req
        key == getCacheKey(req.method, req.url, req.data)
        cs1 == IF req.method = "GET"
               THEN CacheSet(st.cs, key, Envelope(c), CacheTimeOf(req), now, maxSize)
               ELSE IF req.method \in {"POST", "PUT", "PATCH", "DELETE"}
               THEN CacheInvalidate(st.cs, InvalidatePattern(req.url))
               ELSE st.cs
    IN  [st EXCEPT !.call.pc = "done",
                   !.call.doneAt = now,
                   !.call.result = [kind |-> "ok", err |-> NoErr, data |-> Envelope(c)],
                   !.cs = cs1,
                   !.active = MapDelete(st.active, st.call.reqId)]

\* what the transport call of c can settle with
TransportOutcomes(c) ==
    IF c \in aborted \/ (calls[c].timerFired /\ abortEventAborts)
    THEN {[t |-> "reject", status |-> 0, valid |-> TRUE, rt |-> NoErr, ri |-> NoErr]}
    ELSE {[t |-> "reject", status |-> 0, valid |-> TRUE, rt |-> NoErr, ri |-> NoErr]}
         \cup
         {o \in [t : {"resolve"}, status : {200, 503}, valid : BOOLEAN,
                 rt : MaybeHookError, ri : MaybeHookError] :
             /\ (~o.valid) => (calls[c].req.schema /\ o.status = 200 /\ o.rt = NoErr)
             /\ (o.ri /= NoErr) => (o.status = 200 /\ o.valid /\ o.rt = NoErr)}

\* (an attempt whose catch block also receives what the response
\* interceptors throw)
SettledAwaited(st, c, o) ==
    IF o.t = "reject"
    THEN IF c \in aborted
         THEN Caught(st, performRequestCatch(AbortFailure), "cancel")
         ELSE IF calls[c].timerFired /\ abortEventAborts
         THEN Caught(st, performRequestCatch(AbortFailure), "timeout")
         ELSE Caught(st, performRequestCatch(NetworkFailure), "network")
    ELSE IF o.rt /= NoErr THEN Caught(st, o.rt, "response-transformer")
    ELSE IF o.status /= 200 THEN Caught(st, FetchesResponseError, "status")
    ELSE IF st.call.req.schema /\ st.call.req.validatorType \notin ValidatorKinds
    THEN Caught(st, ValidationCatch(UnsupportedValidator), "config")
    ELSE IF st.call.req.schema /\ ~o.valid
    THEN Caught(st, ValidationCatch(FetchesValidationError), "validation")
    ELSE IF o.ri /= NoErr THEN Caught(st, o.ri, "response-interceptor")
    ELSE Succeed(st, c)
\* the rest of the attempt once the transport call has settled: the catch of
\* performRequest, processResponse, the response interceptors
Settled(st, c, o) ==
    IF o.t = "reject"
    THEN IF c \in aborted
         THEN Caught(st, performRequestCatch(AbortFailure), "cancel")
         ELSE IF calls[c].timerFired /\ abortEventAborts
         THEN Caught(st, performRequestCatch(AbortFailure), "timeout")
         ELSE Caught(st, performRequestCatch(NetworkFailure), "network")
    ELSE IF o.rt /= NoErr THEN Caught(st, o.rt, "response-transformer")
    ELSE IF o.status /= 200 THEN Caught(st, FetchesResponseError, "status")
    ELSE IF st.call.req.schema /\ st.call.req.validatorType \notin ValidatorKinds
    THEN Caught(st, ValidationCatch(UnsupportedValidator), "config")
    ELSE IF st.call.req.schema /\ ~o.valid
    THEN Caught(st, ValidationCatch(FetchesValidationError), "validation")
    ELSE IF o.ri /= NoErr
    THEN \* line 238 returns the promise of applyResponseInterceptors without
         \* awaiting it: its rejection settles executeRequest and never
         \* enters the catch block
         Raise([st EXCEPT !.call.lastCause = "response-interceptor",
                          !.call.thrown = o.ri,
                          !.call.onlyStatus = FALSE], o.ri)
    ELSE Succeed(st, c)

NoCancel == [op |-> "none", id |-> "none", active |-> <<>>, aborted |-> {}]

Commit(c, st) ==
    /\ lastCancel' = NoCancel
    /\ calls' = [calls EXCEPT ![c] = st.call]
    /\ activeRequests' = st.active
    /\ cache' = st.cs.cache
    /\ keyOrder' = st.cs.keyOrder

\* Fetches.request, from its call to its first suspension in the transport
Request(c, req, interceptor, transformer) ==
    /\ calls[c].pc = "idle"
    /\ \A d \in Calls : d < c => calls[d].pc /= "idle"
    /\ LET call0 == [calls[c] EXCEPT
                        !.req = req, !.issuedAt = now,
                        !.after = {d \in Calls : calls[d].pc = "done"}]
       IN  IF interceptor /= NoErr
           THEN \* a request interceptor throws: nothing is registered
                Commit(c, [Here(c) EXCEPT
                              !.call = [call0 EXCEPT
                                           !.pc = "done", !.doneAt = now,
                                           !.lastCause = "interceptor",
                                           !.thrown = interceptor,
                                           !.result = [kind |-> "error", err |-> interceptor,
                                                       data |-> NULL]]])
           ELSE LET requestId == IF req.requestId = "none" THEN Uuid(c) ELSE req.requestId
                    key == getCacheKey(req.method, req.url, req.data)
                    got == IF req.method = "GET" THEN CacheGet(cs0, key, now)
                           ELSE [cs |-> cs0, ret |-> NULL]
                IN  IF got.ret /= NULL
                    THEN Commit(c, [call |-> [call0 EXCEPT
                                                 !.pc = "done", !.doneAt = now,
                                                 !.result = [kind |-> "cached", err |-> NoErr,
                                                             data |-> got.ret]],
                                    active |-> activeRequests,
                                    cs |-> got.cs])
                    ELSE Commit(c, BeginAttempt(
                                      [call |-> [call0 EXCEPT !.reqId = requestId],
                                       active |-> MapSet(activeRequests, requestId, c),
                                       cs |-> got.cs],
                                      transformer))
    /\ UNCHANGED <<retryConfig, abortEventAborts, aborted>>
    /\ ClientFrame

\* the transport call of c settles with outcome o
SettleWith(c, o) ==
    /\ calls[c].pc = "fetching"
    /\ Commit(c, Settled(Here(c), c, o))
    /\ UNCHANGED <<retryConfig, abortEventAborts, aborted>>
    /\ ClientFrame

\* the transport call of c settles
TransportSettle(c) == \E o \in TransportOutcomes(c) : SettleWith(c, o)

\* the outcomes in which no response transformer and no response interceptor
\* throws
PlainOutcomes(c) == {o \in TransportOutcomes(c) : o.rt = NoErr /\ o.ri = NoErr}

\* the timeout timer of performRequest fires before the transport call has
\* settled: lines 356-364
TimerFire(c) ==
    /\ calls[c].pc = "fetching"
    /\ ~calls[c].timerFired
    /\ c \notin aborted
    /\ calls' = [calls EXCEPT ![c].timerFired = TRUE]
    /\ lastCancel' = NoCancel
    /\ UNCHANGED <<retryConfig, abortEventAborts, activeRequests, aborted, cache, keyOrder>>
    /\ ClientFrame

\* the backoff delay of c elapses: attempt++, and the loop goes round
DelayElapse(c, transformer) ==
    /\ calls[c].pc = "delaying"
    /\ Commit(c, BeginAttempt([Here(c) EXCEPT !.call.attempt = @ + 1], transformer))
    /\ UNCHANGED <<retryConfig, abortEventAborts, aborted>>
    /\ ClientFrame

\* the history of a cancellation: where the signalled calls were
Signalled(S) ==
    [c \in Calls |->
        IF c \in S /\ c \notin aborted /\ calls[c].pc = "fetching"
        THEN [calls[c] EXCEPT !.cancelAt = <<calls[c].transports>>]
        ELSE IF c \in S /\ c \notin aborted /\ calls[c].pc = "delaying"
        THEN [calls[c] EXCEPT !.cancelInDelay = <<calls[c].transports>>]
        ELSE calls[c]]

\* (a cancelRequest that signals and removes every registered handle)
CancelRequestEvery(requestId) ==
    /\ IF requestId \in DOMAIN activeRequests
       THEN /\ aborted' = aborted \cup {activeRequests[id] : id \in DOMAIN activeRequests}
            /\ activeRequests' = <<>>
            /\ calls' = Signalled({activeRequests[id] : id \in DOMAIN activeRequests})
       ELSE UNCHANGED <<aborted, activeRequests, calls>>
    /\ lastCancel' = [op |-> "cancelRequest", id |-> requestId,
                      active |-> activeRequests, aborted |-> aborted]
    /\ UNCHANGED <<retryConfig, abortEventAborts, cache, keyOrder>>
    /\ ClientFrame
\* Fetches.cancelRequest
CancelRequest(requestId) ==
    /\ IF requestId \in DOMAIN activeRequests
       THEN /\ aborted' = aborted \cup {activeRequests[requestId]}
            /\ activeRequests' = MapDelete(activeRequests, requestId)
            /\ calls' = Signalled({activeRequests[requestId]})
       ELSE UNCHANGED <<aborted, activeRequests, calls>>
    /\ lastCancel' = [op |-> "cancelRequest", id |-> requestId,
                      active |-> activeRequests, aborted |-> aborted]
    /\ UNCHANGED <<retryConfig, abortEventAborts, cache, keyOrder>>
    /\ ClientFrame

\* Fetches.cancelAllRequests
CancelAllRequests ==
    /\ aborted' = aborted \cup {activeRequests[id] : id \in DOMAIN activeRequests}
    /\ activeRequests' = <<>>
    /\ calls' = Signalled({activeRequests[id] : id \in DOMAIN activeRequests})
    /\ lastCancel' = [op |-> "cancelAllRequests", id |-> "none",
                      active |-> activeRequests, aborted |-> aborted]
    /\ UNCHANGED <<retryConfig, abortEventAborts, cache, keyOrder>>
    /\ ClientFrame

\* capacity of the client's cache
CacheCap == 2

OrchInit ==
    /\ retryConfig \in {NoRetry} \cup RetryConfigs
    /\ abortEventAborts \in BOOLEAN
    /\ calls = <<IdleCall>>
    /\ activeRequests = <<>>
    /\ aborted = {}
    /\ lastCancel = NoCancel

OrchNext ==
    \/ \E c \in Calls, req \in Requests, i \in MaybeHookError, t \in MaybeHookError :
          Request(c, req, i, t)
    \/ \E c \in Calls : TransportSettle(c)
    \/ \E c \in Calls : TimerFire(c)
    \/ \E c \in Calls, t \in MaybeHookError : DelayElapse(c, t)
    \/ \E id \in RequestIds : CancelRequest(id)
    \/ CancelAllRequests

\* ------------------------------------------------------------------------
\* Interceptor Chain: src/lib/fetches.ts, interceptors.request / .response
\* and applyRequestInterceptors / applyResponseInterceptors
\* ------------------------------------------------------------------------

\* most calls of use on one chain
MaxSlots == 3

\* a slot { onFulfilled, onRejected }: how each hook behaves when invoked
\* ("none": the hook is undefined); name tells the registrations apart
Slot(name, onFulfilled, onRejected) ==
    [name |-> name, onFulfilled |-> onFulfilled, onRejected |-> onRejected]
\* {} as RequestInterceptor
EmptySlot == Slot(0, "none", "none")

\* the pairs of hooks passed to use
HookPairs ==
    {<<"ok", "none">>, <<"throw", "none">>, <<"throw", "ok">>, <<"throw", "throw">>,
     <<"none", "ok">>}

\* what the fulfillment hook and the rejection hook of registration n throw
FulfilError(n) ==
    Err("Error", "Error", <<"onFulfilled 1 failed", "onFulfilled 2 failed",
                            "onFulfilled 3 failed", "onFulfilled 4 failed",
                            "onFulfilled 5 failed", "onFulfilled 6 failed">>[n])
RejectError(n) ==
    Err("Error", "Error", <<"onRejected 1 failed", "onRejected 2 failed",
                            "onRejected 3 failed", "onRejected 4 failed",
                            "onRejected 5 failed", "onRejected 6 failed">>[n])

\* use: const id = this.requestInterceptors.length; push; return id
ChainUse(ch, slot) == [chain |-> Append(ch, slot), id |-> Len(ch)]

\* (an eject that removes the slot from the array)
ChainEjectSplice(ch, id) ==
    IF id >= 0 /\ id < Len(ch) THEN Splice(ch, id + 1) ELSE ch
\* eject: if (id >= 0 && id < length) this.requestInterceptors[id] = {}
ChainEject(ch, id) ==
    IF id >= 0 /\ id < Len(ch) THEN [ch EXCEPT ![id + 1] = EmptySlot] ELSE ch

\* the outcome of a run: the value threaded through the hooks (the names of
\* the hooks that have returned, in order), the error thrown, the fulfillment
\* hooks invoked and the rejection hooks invoked, in order
RunOutcome(value, error, ran, rejected) ==
    [value |-> value, error |-> error, ran |-> ran, rejected |-> rejected]
NoRun == [none |-> TRUE]

\* applyRequestInterceptors / applyResponseInterceptors from slot i on
RECURSIVE RunFrom(_, _, _)
RunFrom(ch, i, out) ==
    IF i > Len(ch) THEN out
    ELSE LET slot == ch[i]
         IN  IF slot.onFulfilled = "none" THEN RunFrom(ch, i + 1, out)
             ELSE IF slot.onFulfilled = "ok"
             THEN RunFrom(ch, i + 1,
                          [out EXCEPT !.value = Append(@, slot.name),
                                      !.ran = Append(@, slot.name)])
             ELSE \* the hook throws: catch (error) { onRejected?.(error); throw error }
                  LET ran == Append(out.ran, slot.name)
                  IN  IF slot.onRejected = "none"
                      THEN RunOutcome(out.value, FulfilError(slot.name), ran, out.rejected)
                      ELSE IF slot.onRejected = "ok"
                      THEN RunOutcome(out.value, FulfilError(slot.name), ran,
                                      Append(out.rejected, slot.name))
                      ELSE \* await interceptor.onRejected(error) throws
                           RunOutcome(out.value, RejectError(slot.name), ran,
                                      Append(out.rejected, slot.name))

RunChain(ch) == RunFrom(ch, 1, RunOutcome(<<>>, NoErr, <<>>, <<>>))

\* the chains a client is constructed with: config.interceptors.request
ConfiguredChains == {<<>>, <<Slot(1, "ok", "none")>>}

ChainInit ==
    /\ chain \in ConfiguredChains
    /\ chainUsed = [i \in 1..Len(chain) |-> [id |-> i - 1, slot |-> chain[i]]]
    /\ chainIds = <<>>
    /\ chainEjected = {}
    /\ chainRun = NoRun

\* interceptors.request.use(onFulfilled, onRejected)
Use(onFulfilled, onRejected) ==
    /\ Len(chainIds) < MaxSlots
    /\ LET slot == Slot(Len(chainUsed) + 1, onFulfilled, onRejected)
           r == ChainUse(chain, slot)
       IN  /\ chain' = r.chain
           /\ chainIds' = Append(chainIds, r.id)
           /\ chainUsed' = Append(chainUsed, [id |-> r.id, slot |-> slot])
    /\ chainRun' = NoRun
    /\ UNCHANGED chainEjected
    /\ ChainFrame

\* interceptors.request.eject(id)
Eject(id) ==
    /\ chain' = ChainEject(chain, id)
    /\ chainEjected' = chainEjected \cup ({id} \cap {chainUsed[i].id : i \in DOMAIN chainUsed})
    /\ chainRun' = NoRun
    /\ UNCHANGED <<chainUsed, chainIds>>
    /\ ChainFrame

\* a call runs the chain
Run ==
    /\ chainRun' = RunChain(chain)
    /\ UNCHANGED <<chain, chainUsed, chainIds, chainEjected>>
    /\ ChainFrame

ChainNext ==
    \/ \E h \in HookPairs : Use(h[1], h[2])
    \/ \E id \in -1..(MaxSlots + 1) : Eject(id)
    \/ Run

\* ------------------------------------------------------------------------
\* Specifications
\* ------------------------------------------------------------------------

\* the parts of the state a specification leaves alone
CacheQuiet ==
    /\ cache = <<>> /\ keyOrder = <<>> /\ now = 0
HistQuiet ==
    /\ last = EmptyLast /\ lastSet = NoSets /\ within = TRUE /\ usedKeys = {}
    /\ used = <<>> /\ setSeq = <<>> /\ plainSets = TRUE
DelayQuiet ==
    /\ dConfig = [backoff |-> "linear", initialDelay |-> 0, maxDelay |-> Undefined]
    /\ dAttempt = 0 /\ dDelays = <<>>
OrchQuiet ==
    /\ retryConfig = NoRetry /\ abortEventAborts = FALSE
    /\ calls = <<>> /\ activeRequests = <<>> /\ aborted = {} /\ lastCancel = NoCancel
ChainQuiet ==
    /\ chain = <<>> /\ chainUsed = <<>> /\ chainIds = <<>> /\ chainEjected = {}
    /\ chainRun = NoRun

\* the Cache Store alone
InitCache == CacheInit /\ DelayQuiet /\ OrchQuiet /\ ChainQuiet
SpecCache == InitCache /\ [][CacheNext]_vars

\* the delay function alone
InitDelay ==
    DelayInit /\ CacheQuiet /\ maxSize = CacheCap /\ HistQuiet /\ OrchQuiet /\ ChainQuiet
SpecDelay == InitDelay /\ [][DelayNext]_vars

\* a client and its calls
Init ==
    OrchInit /\ CacheQuiet /\ maxSize = CacheCap /\ HistQuiet /\ DelayQuiet /\ ChainQuiet
Next == OrchNext
Spec == Init /\ [][Next]_vars

\* an interceptor chain alone
InitChain ==
    ChainInit /\ CacheQuiet /\ maxSize = CacheCap /\ HistQuiet /\ DelayQuiet /\ OrchQuiet
SpecChain == InitChain /\ [][ChainNext]_vars

\* a client and two calls that may overlap; no hook throws and no timer fires
PairConfigs ==
    {NoRetry,
     [attempts |-> 2, backoff |-> "linear", initialDelay |-> 50,
      maxDelay |-> Undefined, shouldRetry |-> "all"]}
InitPair ==
    /\ retryConfig \in PairConfigs
    /\ abortEventAborts = FALSE
    /\ calls = <<IdleCall, IdleCall>>
    /\ activeRequests = <<>> /\ aborted = {} /\ lastCancel = NoCancel
    /\ CacheQuiet /\ maxSize = CacheCap /\ HistQuiet /\ DelayQuiet /\ ChainQuiet
NextPair ==
    \/ \E c \in Calls, req \in Requests : Request(c, req, NoErr, NoErr)
    \/ \E c \in Calls : \E o \in PlainOutcomes(c) : SettleWith(c, o)
    \/ \E c \in Calls : DelayElapse(c, NoErr)
    \/ \E id \in RequestIds : CancelRequest(id)
    \/ CancelAllRequests
SpecPair == InitPair /\ [][NextPair]_vars

\* a client whose calls are made one after the other, each when the one before
\* it has ended, while the clock advances; no retry policy, no hook throws
InitSeq ==
    /\ retryConfig = NoRetry
    /\ abortEventAborts = FALSE
    /\ calls = <<IdleCall, IdleCall, IdleCall>>
    /\ activeRequests = <<>> /\ aborted = {} /\ lastCancel = NoCancel
    /\ CacheQuiet /\ maxSize = CacheCap /\ HistQuiet /\ DelayQuiet /\ ChainQuiet
NextSeq ==
    \/ \E c \in Calls, req \in Requests :
          /\ \A d \in Calls : d < c => calls[d].pc = "done"
          /\ Request(c, req, NoErr, NoErr)
    \/ \E c \in Calls : \E o \in PlainOutcomes(c) : SettleWith(c, o)
    \/ Tick
SpecSeq == InitSeq /\ [][NextSeq]_vars

\* ------------------------------------------------------------------------
\* Claims about the Cache Store, under SpecCache
\* ------------------------------------------------------------------------

\* C1: after any sequence of set, get, has, invalidate and clear, for any keys
\* and any configured maximum size, size() never exceeds the configured
\* maximum.
C1_SizeNeverExceedsMax == CacheSize(cs0) <= maxSize

\* C2: in a run of set and get on at most maxSize distinct keys, get(key)
\* returns exactly the value of the most recent set of the key, as long as
\* the time elapsed since that set does not exceed its ttl.
C2_GetReturnsLastSet ==
    (last.op = "get" /\ within /\ lastSet[last.key] /= None)
        => last.ret = lastSet[last.key].data

\* the get happens exactly ttl > 0 after the set, and returns its value
C2_GetAtTtl ==
    /\ last.op = "get" /\ within /\ lastSet[last.key] /= None
    /\ lastSet[last.key].ttl > 0
    /\ now - lastSet[last.key].at = lastSet[last.key].ttl
    /\ last.ret = lastSet[last.key].data

\* C3, as stated: in every state in which a stored entry's age exceeds its
\* TTL, get(key) returns absent and size() does not count that key.
C3_ExpiredNeverCounted ==
    \A k \in DOMAIN cache :
        now - cache[k].timestamp > cache[k].ttl
            => /\ CacheGet(cs0, k, now).ret = NULL
               /\ CacheSize(cs0) <= Cardinality(DOMAIN cache \ {k})

\* C3, amended: a get of a key whose stored entry's age exceeds its TTL
\* returns absent and removes the entry, so that size() does not count the
\* key from then on (until then size() counts the expired entry).
C3_ExpiredGetAbsent ==
    (last.op = "get" /\ last.expired)
        => /\ last.ret = NULL
           /\ last.key \notin DOMAIN cache
           /\ CacheSize(cs0) = Cardinality(DOMAIN cache \ {last.key})

\* a get has found its key's entry expired
C3_GetOfExpired == last.op = "get" /\ last.expired /\ last.ret = NULL

\* the least recently used key of S, by the history of uses
LruOf(S) == used[CHOOSE i \in 1..Len(used) :
                     used[i] \in S /\ \A j \in 1..(i - 1) : used[j] \notin S]

\* the keys that a set of key removes under capacity pressure: those that
\* were stored and not expired before it, and are gone after it
Evicted(key) ==
    (DOMAIN cache \ (ExpiredKeys(cs0, now) \cup {key})) \ DOMAIN cache'

\* C4, first part: whenever set evicts under capacity pressure it removes
\* exactly one entry, the least recently used of the stored keys (a use is a
\* set, or a get that returns the key's value).
C4_EvictsLru ==
    [][\A k \in StoreKeys, v \in StoreValues, ttl \in StoreTtls :
          (Set(k, v, ttl) /\ Evicted(k) /= {})
              => Evicted(k) = {LruOf(DOMAIN cache \ ExpiredKeys(cs0, now))}]_vars

\* C4, second part: inserting maxSize + 1 distinct keys with no reads
\* evicts the first-inserted key.
C4_FirstInsertedEvicted ==
    (plainSets /\ Len(setSeq) = maxSize + 1) => setSeq[1] \notin DOMAIN cache

\* C4, third part: a key touched by get is not the next eviction victim
\* (while another key is stored).
C4_TouchedNotEvicted ==
    [][\A k \in StoreKeys, v \in StoreValues, ttl \in StoreTtls :
          (Set(k, v, ttl) /\ last.op = "get" /\ last.ret /= NULL
           /\ Cardinality(DOMAIN cache \ ExpiredKeys(cs0, now)) > 1)
              => last.key \notin Evicted(k)]_vars

\* C4: the claim, all three parts
C4_LruEviction ==
    C4_EvictsLru /\ []C4_FirstInsertedEvicted /\ C4_TouchedNotEvicted

\* ------------------------------------------------------------------------
\* Claims about the retry loop, the timeout and cancellation, under Spec
\* ------------------------------------------------------------------------

\* the configured attempt budget: retry.attempts, 1 when no retry policy is
\* configured
Budget == IF retryConfig = NoRetry THEN 1 ELSE retryConfig.attempts

NoCustomPredicate == retryConfig /= NoRetry /\ retryConfig.shouldRetry = "none"

Failed(c) == calls[c].pc = "done" /\ calls[c].result.kind = "error"

\* C5: for every logical call, the number of transport attempts never
\* exceeds the configured retry.attempts budget (1 when no retry policy is
\* configured), whatever the errors are and whatever a custom retry
\* predicate returns.
C5_AttemptsWithinBudget == \A c \in Calls : calls[c].transports <= Budget

\* a call has used its whole budget of more than one attempt under a
\* predicate that accepts every error, and has failed
C5_BudgetExhausted ==
    \E c \in Calls :
        /\ retryConfig /= NoRetry /\ retryConfig.shouldRetry = "all"
        /\ Budget > 1 /\ calls[c].transports = Budget
        /\ Failed(c)

\* C6: with a retry policy that has no custom predicate and with budget
\* remaining, an attempt that fails with a transport network failure or with
\* a timeout is followed by another attempt, while an attempt that fails with
\* a validation error or a non-success status is never followed by another
\* attempt.
C6_DefaultClassification ==
    \A c \in Calls :
        NoCustomPredicate =>
            /\ ~(/\ Failed(c)
                  /\ calls[c].lastCause \in {"network", "timeout"}
                  /\ calls[c].attempt < Budget - 1)
            /\ (calls[c].pc = "delaying"
                   => calls[c].lastCause \notin {"validation", "status"})

\* the scenario of C7: retry = {attempts: 3, backoff: linear, initialDelay:
\* 50}, no custom predicate, a GET whose every attempt has received a 503,
\* and the call has ended
C7_Scenario(c) ==
    /\ retryConfig = [attempts |-> 3, backoff |-> "linear", initialDelay |-> 50,
                      maxDelay |-> Undefined, shouldRetry |-> "none"]
    /\ calls[c].req.method = "GET"
    /\ calls[c].pc = "done"
    /\ calls[c].lastCause = "status" /\ calls[c].onlyStatus

\* C7, as stated: such a call performs exactly 3 transport attempts, waiting
\* at least 50 before the second and at least 100 before the third, and then
\* raises ResponseStatusError.
C7_ThreeAttempts ==
    \A c \in Calls :
        C7_Scenario(c) =>
            /\ calls[c].transports = 3
            /\ Len(calls[c].delays) = 2
            /\ calls[c].delays[1] >= 50 /\ calls[c].delays[2] >= 100
            /\ calls[c].result.kind = "error"
            /\ calls[c].result.err = FetchesResponseError

\* C7, amended: such a call performs exactly 1 transport attempt, awaits no
\* backoff delay, and raises ResponseStatusError.
C7_OneAttempt ==
    \A c \in Calls :
        C7_Scenario(c) =>
            /\ calls[c].transports = 1
            /\ calls[c].delays = <<>>
            /\ calls[c].result.kind = "error"
            /\ calls[c].result.err = FetchesResponseError

\* the scenario of C7 has happened
C7_Status503Raised == \E c \in Calls : C7_Scenario(c) /\ Failed(c)

\* C9: when an attempt's timeout elapses before its transport call has
\* settled, the attempt ends at that point, and the failure is classified as
\* TimeoutError, not as NetworkError.
C9_TimeoutClassified ==
    \A c \in Calls :
        (calls[c].pc = "done" /\ calls[c].timerFired)
            => /\ calls[c].result.kind = "error"
               /\ calls[c].result.err.class = "FetchesTimeoutError"

\* C10: when cancelRequest(id) or cancelAllRequests() signals the handle of
\* a call that is blocked in its transport call, that call rejects with a
\* dedicated cancellation error that is distinguishable from both
\* TimeoutError and NetworkError, and no further attempt is made for it.
C10_CancelRejectsDedicated ==
    \A c \in Calls :
        (calls[c].pc = "done" /\ calls[c].cancelAt /= NoNum)
            => /\ calls[c].result.kind = "error"
               /\ calls[c].result.err.class \notin {"FetchesTimeoutError", "FetchesNetworkError"}
               /\ calls[c].transports = calls[c].cancelAt[1]

\* C11: if a call's cancellation handle is signalled while the call is
\* waiting in its backoff delay, the call rejects without waiting for the
\* rest of the delay and without starting another transport attempt.
C11_CancelInDelayRejects ==
    \A c \in Calls :
        calls[c].cancelInDelay /= NoNum
            => /\ calls[c].pc = "done" /\ calls[c].result.kind = "error"
               /\ calls[c].transports = calls[c].cancelInDelay[1]

\* ------------------------------------------------------------------------
\* Claims about the cancellation registry, under SpecPair
\* ------------------------------------------------------------------------

\* the handles that the last step signalled
NewlySignalled == aborted \ lastCancel.aborted

\* C12: cancelRequest(id) with an id that has no registered handle changes
\* nothing; with a registered id it signals and removes exactly that handle
\* and neither signals nor removes the handle of any other id;
\* cancelAllRequests() signals every registered handle and leaves the
\* registry empty.
C12_CancelFrame ==
    /\ (lastCancel.op = "cancelRequest" /\ lastCancel.id \notin DOMAIN lastCancel.active)
          => activeRequests = lastCancel.active /\ aborted = lastCancel.aborted
    /\ (lastCancel.op = "cancelRequest" /\ lastCancel.id \in DOMAIN lastCancel.active)
          => /\ aborted = lastCancel.aborted \cup {lastCancel.active[lastCancel.id]}
             /\ DOMAIN activeRequests = DOMAIN lastCancel.active \ {lastCancel.id}
             /\ \A id \in DOMAIN activeRequests : activeRequests[id] = lastCancel.active[id]
    /\ lastCancel.op = "cancelAllRequests"
          => /\ aborted = lastCancel.aborted
                            \cup {lastCancel.active[id] : id \in DOMAIN lastCancel.active}
             /\ activeRequests = <<>>

\* cancelRequest has just signalled one of two registered handles
C12_CancelOneOfTwo ==
    /\ lastCancel.op = "cancelRequest"
    /\ lastCancel.id \in DOMAIN lastCancel.active
    /\ Cardinality(DOMAIN lastCancel.active) = 2
    /\ NewlySignalled /= {}

\* ------------------------------------------------------------------------
\* Claims about an interceptor chain, under SpecChain
\* ------------------------------------------------------------------------

\* the names of the registered hooks that have a fulfillment hook and were
\* not ejected, in registration order
SurvivingNames ==
    LET kept == SelectSeq(chainUsed, LAMBDA u : u.id \notin chainEjected
                                                /\ u.slot.onFulfilled /= "none")
    IN  [i \in 1..Len(kept) |-> kept[i].slot.name]

IsPrefix(p, q) == Len(p) <= Len(q) /\ SubSeq(q, 1, Len(p)) = p

\* the number of slots the chain was constructed with
Configured == Len(chainUsed) - Len(chainIds)

\* C13: use returns the insertion index of the new slot as its id; after any
\* sequence of use and eject no id is returned twice, eject never removes or
\* renumbers a slot (an out-of-range id is a no-op), and the hooks that were
\* not ejected run in their registration order, each receiving the previous
\* hook's output; three registrations on a fresh chain yield ids 0, 1, 2, and
\* ejecting id 1 leaves 0 and 2 running in that order.
C13_StableIds ==
    /\ \A i \in 1..Len(chainIds) : chainIds[i] = Configured + i - 1
    /\ \A i, j \in 1..Len(chainIds) : i /= j => chainIds[i] /= chainIds[j]
    /\ Len(chain) = Len(chainUsed)
    /\ \A k \in 1..Len(chainUsed) :
          IF chainUsed[k].id \in chainEjected
          THEN chain[k].onFulfilled = "none" /\ chain[k].onRejected = "none"
          ELSE chain[k] = chainUsed[k].slot
    /\ chainRun /= NoRun
          => /\ IsPrefix(chainRun.ran, SurvivingNames)
             /\ (chainRun.error = NoErr => chainRun.value = SurvivingNames)
    /\ (Configured = 0 /\ Len(chainIds) = 3) => chainIds = <<0, 1, 2>>

\* three hooks were registered on a fresh chain, id 1 was ejected, and a run
\* has invoked the hooks of ids 0 and 2, in that order
C13_EjectMiddleOfThree ==
    /\ Configured = 0 /\ chainIds = <<0, 1, 2>> /\ chainEjected = {1}
    /\ chainRun /= NoRun /\ chainRun.error = NoErr
    /\ chainRun.value = <<1, 3>>

\* C14: when a fulfillment hook of a chain fails, its paired rejection hook
\* (if any) is invoked once, no later hook of the chain runs, and the error
\* that reaches the caller of the chain is the original error of the
\* fulfillment hook whatever the rejection hook returns or throws.
C14_OriginalErrorPropagates ==
    (chainRun /= NoRun /\ chainRun.error /= NoErr)
        => LET n == chainRun.ran[Len(chainRun.ran)]
               u == CHOOSE v \in {chainUsed[k] : k \in DOMAIN chainUsed} : v.slot.name = n
           IN  /\ u.slot.onFulfilled = "throw"
               /\ IsPrefix(chainRun.ran, SurvivingNames)
               /\ chainRun.rejected = IF u.slot.onRejected /= "none" THEN <<n>> ELSE <<>>
               /\ chainRun.error = FulfilError(n)

\* ------------------------------------------------------------------------
\* Claims about the response cache of the client, under SpecSeq
\* ------------------------------------------------------------------------

Mutating == {"POST", "PUT", "PATCH", "DELETE"}

\* call c ended with a response from the transport; it was served from the cache
Fetched(c) == calls[c].pc = "done" /\ calls[c].result.kind = "ok"
ServedFromCache(c) ==
    /\ calls[c].pc = "done" /\ calls[c].result.kind = "cached"
    /\ calls[c].transports = 0
    /\ calls[c].reqId = "none"

\* the cache lifetime of a call: its cacheTime, 300000 when it gives none
Lifetime(req) == IF req.cacheTime = Undefined THEN 300000 ELSE req.cacheTime[1]

\* call c repeats the earlier call d: c is identical to d, d had succeeded
\* when c was made, the cache lifetime of d had not elapsed by then, and no
\* mutating call succeeded in between
Repeats(c, d) ==
    /\ calls[c].pc /= "idle" /\ calls[c].lastCause /= "interceptor"
    /\ d \in calls[c].after /\ Fetched(d)
    /\ calls[c].req = calls[d].req
    /\ calls[c].issuedAt - calls[d].doneAt <= Lifetime(calls[d].req)
    /\ ~\E e \in calls[c].after :
           d \in calls[e].after /\ Fetched(e) /\ calls[e].req.method \in Mutating

\* C15: after a GET has succeeded without cache bypass, an identical GET
\* issued before the cache lifetime elapses, with no intervening invalidation
\* or eviction of its key, returns the same envelope and performs no
\* transport call, registers no cancellation handle and runs no request
\* transformer, response transformer, validator or response interceptor.
C15_RepeatedGetIsHit ==
    \A c, d \in Calls :
        (Repeats(c, d) /\ calls[c].req.method = "GET")
            => /\ ServedFromCache(c)
               /\ calls[c].result.data = calls[d].result.data

\* a GET is repeated after the clock has advanced, within its lifetime, and
\* is served from the cache
C15_HitWithinLifetime ==
    \E c, d \in Calls :
        /\ Repeats(c, d) /\ calls[c].req.method = "GET"
        /\ calls[c].issuedAt > calls[d].doneAt
        /\ ServedFromCache(c)

\* C16: cache lookup before the transport call and cache storage after a
\* successful call both apply to HEAD calls exactly as they do to GET calls,
\* and to no other verb: a repeated HEAD within the cache lifetime is served
\* from the cache without a transport call.
C16_HeadCachedLikeGet ==
    \A c, d \in Calls :
        /\ (Repeats(c, d) /\ calls[c].req.method \in {"GET", "HEAD"}) => ServedFromCache(c)
        /\ (Repeats(c, d) /\ calls[c].req.method \notin {"GET", "HEAD"})
              => ~ServedFromCache(c)

\* C17: after a successful POST, PUT, PATCH or DELETE to a URL, every cached
\* GET/HEAD entry whose URL without its query string equals that URL without
\* its query string has been removed, and every cached entry whose base URL
\* differs is still present: a cached GET /items?x=1 is removed by a
\* successful POST /items, a cached GET /other is not.
C17_InvalidatesSameBaseOnly ==
    \A e \in Calls :
        (/\ Fetched(e) /\ calls[e].req.method \in Mutating
         /\ \A c \in Calls : c > e => calls[c].pc = "idle")
            => \A d \in calls[e].after :
                  (/\ Fetched(d) /\ calls[d].req.method = "GET"
                   /\ calls[e].doneAt - calls[d].doneAt <= Lifetime(calls[d].req))
                      => LET k == getCacheKey("GET", calls[d].req.url, calls[d].req.data)
                         IN  IF calls[d].req.url.base = calls[e].req.url.base
                             THEN k \notin DOMAIN cache
                             ELSE k \in DOMAIN cache

\* ------------------------------------------------------------------------
\* Claim about the validator kind, under Spec
\* ------------------------------------------------------------------------

\* C18: requesting an unsupported validator kind as a per-call validatorType
\* override fails immediately with a configuration error and never surfaces
\* as a ValidationError; it does not depend on a schema being configured or
\* on a response having been received.
C18_UnsupportedKindFailsAtOnce ==
    \A c \in Calls :
        (/\ calls[c].pc /= "idle" /\ calls[c].lastCause /= "interceptor"
         /\ calls[c].req.validatorType \notin ValidatorKinds)
            => /\ Failed(c)
               /\ calls[c].transports = 0
               /\ calls[c].result.err.class /= "FetchesValidationError"

\* ------------------------------------------------------------------------
\* Claims about request ids shared by overlapping calls, under SpecPair
\* ------------------------------------------------------------------------

\* call c is in its attempting stage
Attempting(c) == calls[c].pc \in {"fetching", "delaying"}

\* C19: in every reachable state, each request id under which at least one
\* call is in its attempting stage and has not been cancelled has exactly one
\* cancellation handle in the registry, including when two concurrent calls
\* share a caller-supplied id and one of them finishes before the other.
C19_OneHandlePerActiveId ==
    \A c \in Calls :
        (Attempting(c) /\ c \notin aborted) => calls[c].reqId \in DOMAIN activeRequests

\* call c registered under the request id of call d while d was in flight
Supersedes(c, d) ==
    /\ c /= d
    /\ calls[c].reqId /= "none" /\ calls[c].reqId = calls[d].reqId
    /\ d < c /\ d \notin calls[c].after

\* C20, first part: once a call is superseded, neither cancelRequest(id) nor
\* cancelAllRequests() signals it.
C20_SupersededNotSignalled ==
    \A c, d \in Calls :
        (lastCancel.op /= "none" /\ Supersedes(c, d)) => d \notin NewlySignalled

\* C20, second part: cancelRequest(id) signals the newer call.
C20_NewerSignalled ==
    \A c, d \in Calls :
        (/\ lastCancel.op = "cancelRequest" /\ Supersedes(c, d)
         /\ lastCancel.id = calls[c].reqId
         /\ Attempting(c) /\ c \notin lastCancel.aborted)
            => c \in aborted

\* C20: when a call registers under a request id that already has an
\* in-flight call, the new handle replaces the old one; from then on neither
\* cancelRequest(id) nor cancelAllRequests() signals the superseded call,
\* which stays outstanding and runs to its own completion, while
\* cancelRequest(id) signals the newer call.
C20_SupersededUncancellable == C20_SupersededNotSignalled /\ C20_NewerSignalled


\* ------------------------------------------------------------------------
\* Claims about the exits of a call, under SpecPair
\* ------------------------------------------------------------------------

\* C21: when a logical call has finished by any path (success, raised error,
\* cancellation, cache hit), the registry holds no handle that this call
\* registered; the registry is empty whenever no call is in flight, after
\* any interleaving of calls and cancellations.
C21_FinishedHoldsNoHandle ==
    /\ \A c \in Calls :
          calls[c].pc = "done"
              => \A id \in DOMAIN activeRequests : activeRequests[id] /= c
    /\ (\A c \in Calls : ~Attempting(c)) => activeRequests = <<>>

\* both calls have ended, one with a response and one with an error after its
\* handle was signalled in its transport call
C21_BothEnded ==
    /\ \A c \in Calls : calls[c].pc = "done"
    /\ \E c \in Calls : Fetched(c)
    /\ \E c \in Calls : Failed(c) /\ calls[c].cancelAt /= NoNum

\* ------------------------------------------------------------------------
\* Claims about the retry loop's exits and the hooks, under Spec
\* ------------------------------------------------------------------------

\* C22: for every configured attempt budget, a call that reaches the retry
\* loop either returns a response or raises the normalized error of its last
\* attempt; control never falls out of the loop, so no call ends with the
\* generic 'Max retry attempts reached' failure.
C22_NeverFallsOut ==
    \A c \in Calls : Failed(c) => calls[c].result.err /= MaxRetryError

\* the call c ended because a response interceptor threw
InterceptorFailed(c) == Failed(c) /\ calls[c].lastCause = "response-interceptor"

\* C23: the cache store of a GET happens after status and schema validation
\* and before the response interceptor chain runs: the envelope built before
\* any response interceptor was applied is in the cache even if a response
\* interceptor then fails.
C23_StoredBeforeInterceptors ==
    \A c \in Calls :
        (InterceptorFailed(c) /\ calls[c].req.method = "GET")
            => LET key == getCacheKey("GET", calls[c].req.url, calls[c].req.data)
               IN  key \in DOMAIN cache /\ cache[key].data = Envelope(c)

\* C24: an error thrown by a response interceptor aborts the call exactly as
\* an error thrown by a request interceptor does: the call ends at once with
\* the hook's error; the retry policy is not consulted, no backoff is awaited
\* and no further transport attempt is made, even when a custom retry
\* predicate would accept the error and budget remains.
C24_InterceptorErrorAborts ==
    \A c \in Calls :
        calls[c].lastCause \in {"interceptor", "response-interceptor"}
            => /\ Failed(c)
               /\ calls[c].result.err \in HookErrors

\* a response interceptor has thrown in the first attempt of a call whose
\* retry predicate accepts every error and whose budget is not used up
C24_ThrownWithBudgetLeft ==
    \E c \in Calls :
        /\ InterceptorFailed(c)
        /\ retryConfig /= NoRetry /\ retryConfig.shouldRetry = "all"
        /\ calls[c].transports = 1 /\ Budget > 1

\* the stages at which a hook throws
HookCauses ==
    {"interceptor", "request-transformer", "response-transformer", "response-interceptor"}

\* C25: an error thrown by any hook (request interceptor, request
\* transformer, response transformer or response interceptor) reaches the
\* caller of the logical call as that same error, neither wrapped nor
\* reclassified into another error kind.
C25_HookErrorUnmodified ==
    \A c \in Calls :
        (Failed(c) /\ calls[c].lastCause \in HookCauses)
            => calls[c].result.err = calls[c].thrown

\* ------------------------------------------------------------------------
\* Claim about the cache and failed calls, under SpecSeq
\* ------------------------------------------------------------------------

\* the live cache entries and their values
LiveEntries ==
    [k \in {x \in DOMAIN cache : now - cache[x].timestamp <= cache[x].ttl}
        |-> cache[k].data]

\* C26: a logical call that ends by raising an error performs no cache store
\* and no cache invalidation: every step of a call other than the one in
\* which it returns a fetched response leaves the set of live cache entries
\* and their values as they were (only an already expired entry may be
\* removed by the lookup), for GET and for mutating verbs alike.
C26_FailedCallKeepsCache ==
    [][((\E c \in Calls : calls'[c] /= calls[c])
        /\ (\A c \in Calls : Fetched(c)' => Fetched(c)))
          => LiveEntries' = LiveEntries]_vars

\* a mutating call has failed while the cache holds a live entry of a GET of
\* the same base URL
C26_FailedPostBesideEntry ==
    \E c \in Calls :
        /\ Failed(c) /\ calls[c].req.method \in Mutating
        /\ \E k \in DOMAIN LiveEntries :
               RegexTest(InvalidatePattern(calls[c].req.url), k)

\* ------------------------------------------------------------------------
\* Claim about a GET in flight during a mutation, under SpecPair
\* ------------------------------------------------------------------------

\* the GET g made its only transport call before the mutating call m to the
\* same base URL had ended, and both have returned a fetched response
InFlightDuring(g, m) ==
    /\ Fetched(g) /\ calls[g].req.method = "GET"
    /\ Fetched(m) /\ calls[m].req.method \in Mutating
    /\ calls[g].req.url.base = calls[m].req.url.base
    /\ m \notin calls[g].after
    /\ calls[g].transports = 1

\* C27: if a mutating call to a URL succeeds while a GET of the same URL is
\* in flight, then once both calls have finished the cache holds no entry for
\* that GET carrying the response fetched before the mutation.
C27_NoStaleRepopulation ==
    \A g, m \in Calls :
        InFlightDuring(g, m)
            => LET key == getCacheKey("GET", calls[g].req.url, calls[g].req.data)
               IN  ~(key \in DOMAIN cache /\ cache[key].data = Envelope(g))

\* ------------------------------------------------------------------------
\* Claim about the recency list, under SpecCache
\* ------------------------------------------------------------------------

\* C28: after any sequence of set, get, has, invalidate and clear operations
\* the recency list contains exactly the keys of the entry map, each exactly
\* once (no duplicate, no key without an entry, no entry without a key), so
\* keys() has the same length as size().
C28_RecencyListMatchesEntries ==
    /\ {keyOrder[i] : i \in 1..Len(keyOrder)} = DOMAIN cache
    /\ \A i, j \in 1..Len(keyOrder) : keyOrder[i] = keyOrder[j] => i = j
    /\ Len(CacheKeys(cs0)) = CacheSize(cs0)

\* a get has moved the key of one of two entries to the end of the list
C28_TouchedOfTwo ==
    /\ last.op = "get" /\ last.ret /= NULL
    /\ Len(keyOrder) = 2 /\ keyOrder[2] = last.key
    /\ Cardinality(DOMAIN cache) = 2
====
